---- MODULE Spec2Model ----
(***************************************************************************)
(* A model of coilsnake/data_blocks.py: the bounds-checked byte buffer     *)
(* (Block), the free-range allocator on top of it (AllocatableBlock) and   *)
(* the typed buffer with format detection (Rom).                           *)
(*                                                                         *)
(* The buffer contents (a Python array('B')) are held as the array's       *)
(* length and the map of its non-zero bytes, so that buffers as large as   *)
(* the offsets the detector probes can be states of the model.             *)
(***************************************************************************)
EXTENDS Integers, Sequences, FiniteSets, TLC

VARIABLES
    data,                \* self.data: [len, nz]
    size,                \* self.size
    unallocated_ranges,  \* self.unallocated_ranges: sequence of <<begin, end>>
    type,                \* self.type (Rom)
    op,                  \* the method called last
    args,                \* its arguments
    err,                 \* the exception it raised, or NoError
    ret,                 \* what it returned: <<v>>, or <<>> for None
    handed_out,          \* history: <<the sequence of regions callers hold>>,
                         \* or <<>> when the regions are not followed
    headers              \* history: the add_header calls since the image was loaded

vars == <<data, size, unallocated_ranges, type, op, args, err, ret,
          handed_out, headers>>

----------------------------------------------------------------------------
(* Exceptions *)

NoError == "None"
OutOfBoundsError == "OutOfBoundsError"
InvalidArgumentError == "InvalidArgumentError"
NotEnoughUnallocatedSpaceError == "NotEnoughUnallocatedSpaceError"
FileAccessError == "FileAccessError"
ValueNotUnsignedByteError == "ValueNotUnsignedByteError"
CouldNotAllocateError == "CouldNotAllocateError"
IndexError == "IndexError"
NotImplementedError == "NotImplementedError"
AttributeError == "AttributeError"
TypeError == "TypeError"
EOFError == "EOFError"
MemoryError == "MemoryError"

None == <<>>
Returns(v) == <<v>>

Min(a, b) == IF a < b THEN a ELSE b
Max(a, b) == IF a < b THEN b ELSE a

----------------------------------------------------------------------------
(* array.array('B'): length and non-zero bytes *)

ArrayEmpty == [len |-> 0, nz |-> [i \in {} |-> 0]]

\* self.data after `del self.data`: the attribute is gone, and every read of
\* it raises AttributeError
ArrayDeleted == [len |-> -1, nz |-> [i \in {} |-> 0]]

\* array[i] for 0 <= i < len
ByteAt(d, i) == IF i \in DOMAIN d.nz THEN d.nz[i] ELSE 0

\* array.fromlist(l) on an empty array
ArrayFromList(l) ==
    [len |-> Len(l),
     nz  |-> [i \in {j \in 0..(Len(l) - 1) : l[j + 1] # 0} |-> l[i + 1]]]

\* array.tolist()
ArrayToList(d) == [i \in 1..d.len |-> ByteAt(d, i - 1)]

\* array[i] = v for 0 <= i < len
ArrayStore(d, i, v) ==
    [len |-> d.len,
     nz  |-> [j \in (IF v = 0 THEN DOMAIN d.nz \ {i} ELSE DOMAIN d.nz \cup {i})
                |-> IF j = i THEN v ELSE d.nz[j]]]

\* array[key] with Python's index rule: a negative key counts from the end
ArrayGet(d, key) ==
    IF key >= 0 /\ key < d.len THEN [err |-> NoError, val |-> Returns(ByteAt(d, key))]
    ELSE IF key < 0 /\ key >= -d.len
         THEN [err |-> NoError, val |-> Returns(ByteAt(d, d.len + key))]
         ELSE [err |-> IndexError, val |-> None]

\* array[key] = item with Python's index rule
ArraySet(d, key, item) ==
    IF key >= 0 /\ key < d.len THEN [err |-> NoError, data |-> ArrayStore(d, key, item)]
    ELSE IF key < 0 /\ key >= -d.len
         THEN [err |-> NoError, data |-> ArrayStore(d, d.len + key, item)]
         ELSE [err |-> IndexError, data |-> d]

\* array[start:stop] for 0 <= start, 0 <= stop: Python clamps both to len
ArraySlice(d, start, stop) ==
    LET lo == Min(start, d.len)
        hi == Max(lo, Min(stop, d.len))
    IN  [len |-> hi - lo,
         nz  |-> [i \in {j - lo : j \in {k \in DOMAIN d.nz : k >= lo /\ k < hi}}
                    |-> d.nz[i + lo]]]

\* a careless slice store: the bytes outside the slice are cleared
ArraySetSlice_clearing(d, start, stop, items) ==
    [len |-> d.len,
     nz  |-> [j \in {k \in start..(stop - 1) : items[k - start + 1] # 0}
                |-> items[j - start + 1]]]

\* array[start:stop] = items for 0 <= start <= stop: Python clamps both to
\* len and puts items in place of the bytes between them, so an array
\* shorter than stop changes its length
ArraySetSlice(d, start, stop, items) ==
    LET lo    == Min(start, d.len)
        hi    == Max(lo, Min(stop, d.len))
        shift == lo + Len(items) - hi
    IN  [len |-> d.len + shift,
         nz  |-> [j \in ({k \in DOMAIN d.nz : k < lo}
                         \cup {k \in lo..(lo + Len(items) - 1) : items[k - lo + 1] # 0}
                         \cup {k + shift : k \in {m \in DOMAIN d.nz : m >= hi}})
                    |-> IF j < lo THEN d.nz[j]
                        ELSE IF j < lo + Len(items) THEN items[j - lo + 1]
                        ELSE d.nz[j - shift]]]

----------------------------------------------------------------------------
(* Block *)

\* Block.__getitem__, key an int
getitem_int(d, sz, key) ==
    IF key >= sz THEN [err |-> OutOfBoundsError, val |-> None]
    ELSE IF d = ArrayDeleted THEN [err |-> AttributeError, val |-> None]
    ELSE ArrayGet(d, key)

\* Block.__getitem__, key a slice: the copy, as a list (.to_list())
getitem_slice(d, sz, start, stop) ==
    IF start > stop THEN [err |-> InvalidArgumentError, val |-> None]
    ELSE IF (start < 0) \/ (stop - 1 >= sz) THEN [err |-> OutOfBoundsError, val |-> None]
    ELSE IF d = ArrayDeleted THEN [err |-> AttributeError, val |-> None]
    ELSE [err |-> NoError, val |-> Returns(ArrayToList(ArraySlice(d, start, stop)))]

\* Block.__setitem__, key and item ints
setitem_int(d, sz, key, item) ==
    IF item < 0 \/ item > 255 THEN [err |-> ValueNotUnsignedByteError, data |-> d]
    ELSE IF key >= sz THEN [err |-> OutOfBoundsError, data |-> d]
    ELSE IF d = ArrayDeleted THEN [err |-> AttributeError, data |-> d]
    ELSE ArraySet(d, key, item)

\* Block.__setitem__, key a slice and item a list or an array of bytes
setitem_slice(d, sz, start, stop, item) ==
    IF start > stop THEN [err |-> InvalidArgumentError, data |-> d]
    ELSE IF (start < 0) \/ (stop - 1 >= sz) THEN [err |-> OutOfBoundsError, data |-> d]
    ELSE IF Len(item) # stop - start THEN [err |-> InvalidArgumentError, data |-> d]
    ELSE IF stop - start = 0 THEN [err |-> InvalidArgumentError, data |-> d]
    ELSE IF d = ArrayDeleted THEN [err |-> AttributeError, data |-> d]
    ELSE [err |-> NoError, data |-> ArraySetSlice(d, start, stop, item)]

\* reduce(lambda x, y: (x << 8) | y, reversed(bytes_list)), bytes_list not empty
RECURSIVE reduce_le(_)
reduce_le(bytes_list) ==
    IF Len(bytes_list) = 1 THEN bytes_list[1]
    ELSE reduce_le(Tail(bytes_list)) * 256 + bytes_list[1]

\* Block.read_multi
read_multi(d, sz, key, n) ==
    IF n < 0 THEN [err |-> InvalidArgumentError, val |-> None]
    ELSE IF n = 0 THEN [err |-> NoError, val |-> Returns(0)]
    ELSE IF (key < 0) \/ (key >= sz) \/ (key + n > sz)
         THEN [err |-> OutOfBoundsError, val |-> None]
    ELSE LET s == getitem_slice(d, sz, key, key + n)
         IN  IF s.err # NoError THEN [err |-> s.err, val |-> None]
             ELSE IF s.val[1] = <<>>   \* reduce() of an empty sequence
             THEN [err |-> TypeError, val |-> None]
             ELSE [err |-> NoError, val |-> Returns(reduce_le(s.val[1]))]

\* the loop storing the low byte at the highest offset (big-endian)
RECURSIVE write_multi_loop_be(_, _, _, _, _)
write_multi_loop_be(d, sz, key, item, n) ==
    IF n > 0
    THEN LET w == setitem_int(d, sz, key + n - 1, item % 256)
         IN  IF w.err # NoError THEN w
             ELSE write_multi_loop_be(w.data, sz, key, item \div 256, n - 1)
    ELSE [err |-> NoError, data |-> d]

\* the while loop of Block.write_multi
RECURSIVE write_multi_loop(_, _, _, _, _)
write_multi_loop(d, sz, key, item, n) ==
    IF n > 0
    THEN LET w == setitem_int(d, sz, key, item % 256)
         IN  IF w.err # NoError THEN w
             ELSE write_multi_loop(w.data, sz, key + 1, item \div 256, n - 1)
    ELSE [err |-> NoError, data |-> d]

\* Block.write_multi
write_multi(d, sz, key, item, n) ==
    IF n < 0 THEN [err |-> InvalidArgumentError, data |-> d]
    ELSE IF (key < 0) \/ (key >= sz) \/ (key + n > sz)
         THEN [err |-> OutOfBoundsError, data |-> d]
    ELSE IF n = 0 THEN [err |-> NoError, data |-> d]
    ELSE write_multi_loop(d, sz, key, item, n)

----------------------------------------------------------------------------
(* Ranges *)

\* check_range_validity: the exception raised, or NoError
check_range_validity(range, sz) ==
    LET begin == range[1]
        end   == range[2]
    IN  IF end < begin THEN InvalidArgumentError
        ELSE IF (begin < 0) \/ (end >= sz) THEN OutOfBoundsError
        ELSE NoError

\* Python's order on tuples (begin, end)
TupleLE(a, b) == (a[1] < b[1]) \/ (a[1] = b[1] /\ a[2] <= b[2])

\* the place of x in a sorted list
RECURSIVE InsertSorted(_, _)
InsertSorted(l, x) ==
    IF l = <<>> THEN <<x>>
    ELSE IF TupleLE(x, Head(l)) THEN <<x>> \o l
    ELSE <<Head(l)>> \o InsertSorted(Tail(l), x)

\* list.sort() on a list of tuples
RECURSIVE list_sort(_)
list_sort(l) ==
    IF l = <<>> THEN <<>> ELSE InsertSorted(list_sort(Tail(l)), Head(l))

\* a lost assignment: the list is left as it was
list_set_lost(l, i, x) == l

\* l[i] = x (i counted from 1)
list_set(l, i, x) == [l EXCEPT ![i] = x]

\* del(l[i]) (i counted from 1)
list_del(l, i) == SubSeq(l, 1, i - 1) \o SubSeq(l, i + 1, Len(l))

\* l.insert(i, x): x is put before l[i] (i counted from 1)
list_insert(l, i, x) == SubSeq(l, 1, i - 1) \o <<x>> \o SubSeq(l, i, Len(l))

SetMin(S) == CHOOSE x \in S : \A y \in S : x <= y

----------------------------------------------------------------------------
(* AllocatableBlock *)

\* the three branches of the loop of mark_allocated, for the entry a
mark_prefix(a, allocated_begin, allocated_end) == allocated_begin = a[1]

mark_inside(a, allocated_begin, allocated_end) ==
    (allocated_begin > a[1]) /\ (allocated_end <= a[2])

mark_spans_end(a, allocated_begin, allocated_end) ==
    (allocated_begin > a[1]) /\ (allocated_begin < a[2]) /\ (allocated_end > a[2])

\* the split a careless edit of the second branch would make: the free
\* piece after the allocated range starts at its last byte
mark_inside_split_touching(ranges, i, allocated_begin, allocated_end) ==
    LET shrunk == list_set(ranges, i, <<ranges[i][1], allocated_begin - 1>>)
    IN  IF allocated_end # ranges[i][2]
        THEN list_sort(list_insert(shrunk, i, <<allocated_end, ranges[i][2]>>))
        ELSE shrunk

\* the second branch of mark_allocated: entry i keeps the bytes before the
\* allocated range, a new entry the bytes after it, and the list is sorted
mark_inside_split(ranges, i, allocated_begin, allocated_end) ==
    LET shrunk == list_set(ranges, i, <<ranges[i][1], allocated_begin - 1>>)
    IN  IF allocated_end # ranges[i][2]
        THEN list_sort(list_insert(shrunk, i, <<allocated_end + 1, ranges[i][2]>>))
        ELSE shrunk

\* a careless recursive call of the first branch: entry i is left in the list
mark_tail_after_prefix_kept(ranges, i, allocated_begin, allocated_end) ==
    [ranges |-> ranges,
     range  |-> <<ranges[i][2] + 1, allocated_end>>]

\* the recursive call of the first branch: entry i is deleted and the rest
\* of the range, after the entry's end, is marked
mark_tail_after_prefix(ranges, i, allocated_begin, allocated_end) ==
    [ranges |-> list_del(ranges, i),
     range  |-> <<ranges[i][2] + 1, allocated_end>>]

\* a careless recursive call of the third branch: the whole range is marked
\* again
mark_tail_after_span_again(ranges, i, allocated_begin, allocated_end) ==
    [ranges |-> list_set(ranges, i, <<ranges[i][1], allocated_begin - 1>>),
     range  |-> <<allocated_begin, allocated_end>>]

\* the recursive call of the third branch: entry i keeps the bytes before
\* the range and the rest of the range, after the entry's end, is marked
mark_tail_after_span(ranges, i, allocated_begin, allocated_end) ==
    [ranges |-> list_set(ranges, i, <<ranges[i][1], allocated_begin - 1>>),
     range  |-> <<ranges[i][2] + 1, allocated_end>>]

\* the entries the loop of mark_allocated stops at: the first of them is
\* the one a call works on
mark_hits(ranges, allocated_begin, allocated_end) ==
    {i \in 1..Len(ranges) :
        \/ mark_prefix(ranges[i], allocated_begin, allocated_end)
        \/ mark_inside(ranges[i], allocated_begin, allocated_end)
        \/ mark_spans_end(ranges[i], allocated_begin, allocated_end)}

\* the recursive call a call of mark_allocated makes: <<>> when it makes
\* none, else <<[ranges, range]>>, the list and the range it passes on
mark_allocated_tail(ranges, sz, used_range) ==
    LET allocated_begin == used_range[1]
        allocated_end   == used_range[2]
        hits == mark_hits(ranges, allocated_begin, allocated_end)
    IN  IF check_range_validity(used_range, sz) # NoError \/ hits = {} THEN None
        ELSE
          LET i == SetMin(hits)
          IN  IF mark_prefix(ranges[i], allocated_begin, allocated_end)
              THEN IF allocated_end > ranges[i][2]
                   THEN <<mark_tail_after_prefix(ranges, i, allocated_begin,
                                                 allocated_end)>>
                   ELSE None
              ELSE IF mark_inside(ranges[i], allocated_begin, allocated_end)
              THEN None
              ELSE <<mark_tail_after_span(ranges, i, allocated_begin, allocated_end)>>

\* AllocatableBlock.mark_allocated: the exception raised and the list it leaves
RECURSIVE mark_allocated(_, _, _)
mark_allocated(ranges, sz, used_range) ==
    LET v == check_range_validity(used_range, sz)
        allocated_begin == used_range[1]
        allocated_end   == used_range[2]
        hits == mark_hits(ranges, allocated_begin, allocated_end)
        tail == mark_allocated_tail(ranges, sz, used_range)
    IN  IF v # NoError THEN [err |-> v, ranges |-> ranges]
        ELSE IF hits = {} THEN [err |-> CouldNotAllocateError, ranges |-> ranges]
        ELSE IF tail # None THEN mark_allocated(tail[1].ranges, sz, tail[1].range)
        ELSE
          LET i   == SetMin(hits)
              end == ranges[i][2]
          IN  IF mark_prefix(ranges[i], allocated_begin, allocated_end)
              THEN IF allocated_end < end
                   THEN [err |-> NoError,
                         ranges |-> list_set(ranges, i, <<allocated_end + 1, end>>)]
                   ELSE [err |-> NoError, ranges |-> list_del(ranges, i)]
              ELSE [err |-> NoError,
                    ranges |-> mark_inside_split(ranges, i, allocated_begin,
                                                 allocated_end)]

\* the ranges of the successive calls a call of mark_allocated makes, itself
\* first, followed for at most depth calls
RECURSIVE mark_allocated_calls(_, _, _, _)
mark_allocated_calls(ranges, sz, used_range, depth) ==
    IF depth = 0 THEN <<>>
    ELSE LET tail == mark_allocated_tail(ranges, sz, used_range)
         IN  <<used_range>>
                \o (IF tail = None THEN <<>>
                    ELSE mark_allocated_calls(tail[1].ranges, sz, tail[1].range,
                                              depth - 1))

\* AllocatableBlock.is_unallocated
is_unallocated(ranges, sz, range) ==
    LET v == check_range_validity(range, sz)
    IN  IF v # NoError THEN [err |-> v, val |-> None]
        ELSE [err |-> NoError,
              val |-> Returns(\E i \in 1..Len(ranges) :
                                 (range[1] >= ranges[i][1]) /\ (range[2] <= ranges[i][2]))]

\* AllocatableBlock.is_allocated
is_allocated(ranges, sz, range) ==
    LET u == is_unallocated(ranges, sz, range)
    IN  IF u.err # NoError THEN u ELSE [err |-> NoError, val |-> Returns(~u.val[1])]

\* AllocatableBlock.deallocate
deallocate(ranges, sz, range) ==
    LET v == check_range_validity(range, sz)
    IN  IF v # NoError THEN [err |-> v, ranges |-> ranges]
        ELSE [err |-> NoError, ranges |-> list_sort(Append(ranges, range))]

\* the test with the length of the entry taken one byte too long
allocate_fits_loose(entry, n, can_write_to) ==
    /\ n <= entry[2] - entry[1] + 2
    /\ (can_write_to = <<>> \/ entry[1] \in can_write_to[1])

\* the test of the search loop of allocate on the entry (begin, end):
\* can_write_to is <<>> for None, or <<S>> for the predicate true on S
allocate_fits(entry, n, can_write_to) ==
    /\ n <= entry[2] - entry[1] + 1
    /\ (can_write_to = <<>> \/ entry[1] \in can_write_to[1])

\* AllocatableBlock.allocate: data_arg and size_arg are <<>> for None, or <<v>>
allocate(d, sz, ranges, data_arg, size_arg, can_write_to) ==
    LET failed(e) == [err |-> e, val |-> None, ranges |-> ranges, data |-> d]
    IN
    IF data_arg = <<>> /\ size_arg = <<>> THEN failed(InvalidArgumentError)
    ELSE IF size_arg # <<>> /\ data_arg # <<>> /\ size_arg[1] # Len(data_arg[1])
    THEN failed(InvalidArgumentError)
    ELSE
      LET n == IF size_arg = <<>> THEN Len(data_arg[1]) ELSE size_arg[1]
          fits == {i \in 1..Len(ranges) : allocate_fits(ranges[i], n, can_write_to)}
      IN  IF n <= 0 THEN failed(InvalidArgumentError)
          ELSE IF fits = {} THEN failed(NotEnoughUnallocatedSpaceError)
          ELSE
            LET i     == SetMin(fits)
                begin == ranges[i][1]
                end   == ranges[i][2]
                left  == IF begin + n - 1 = end
                         THEN list_del(ranges, i)
                         ELSE list_set(ranges, i, <<begin + n, end>>)
                w     == IF data_arg = <<>>
                         THEN [err |-> NoError, data |-> d]
                         ELSE setitem_slice(d, sz, begin, begin + n, data_arg[1])
            IN  IF w.err # NoError
                THEN [err |-> w.err, val |-> None, ranges |-> left, data |-> w.data]
                ELSE [err |-> NoError, val |-> Returns(begin),
                      ranges |-> left, data |-> w.data]

----------------------------------------------------------------------------
(* Rom: the descriptor table and format detection *)

ROM_TYPE_NAME_UNKNOWN == "Unknown"

\* the length of the header a headered image carries (0x200)
HEADER_LEN == 512

\* ROM_TYPE_MAP (resources/romtypes.yml): two descriptors with their
\* signatures at 0 and 1 and two SNES descriptors with their signatures at
\* 0xffc0 and 0xffc2.  The table is a dict keyed by the type name, and
\* _detect_type walks it with iteritems(): the descriptors are listed in the
\* order the dict yields these four keys (by the hash of the name, not by
\* their order in the file).  free_ranges holds the parsed '(begin,end)'
\* strings, and is <<>> for a descriptor without the 'free ranges' key.
ROM_TYPE_MAP ==
    << [name |-> "Generic", platform |-> "NES", offset |-> 0,
        data |-> <<78, 69>>, has_free_ranges |-> TRUE,
        free_ranges |-> << <<4, 5>>, <<2, 2>> >>],
       [name |-> "Plain", platform |-> "GB", offset |-> 1,
        data |-> <<71>>, has_free_ranges |-> FALSE,
        free_ranges |-> << >>],
       [name |-> "Earthbound", platform |-> "SNES", offset |-> 65472,
        data |-> <<69, 65>>, has_free_ranges |-> TRUE,
        free_ranges |-> << <<66048, 66049>>, <<2, 3>>, <<66560, 66561>>,
                           <<4194302, 4194303>> >>],
       [name |-> "Mother", platform |-> "SNES", offset |-> 65474,
        data |-> <<90>>, has_free_ranges |-> TRUE,
        free_ranges |-> << <<8, 9>> >>] >>

\* x == y, with x the complement of one read and y another read: the
\* exception the first failing read raises, or the result of the comparison
complement_eq(x, y) ==
    IF x.err # NoError THEN [err |-> x.err, val |-> FALSE]
    ELSE IF y.err # NoError THEN [err |-> y.err, val |-> FALSE]
    ELSE [err |-> NoError, val |-> (255 - x.val[1]) = y.val[1]]

\* (~self[a] & 0xff == self[b])
complement_pair(d, sz, a, b) ==
    complement_eq(getitem_int(d, sz, a), getitem_int(d, sz, b))

\* s.to_list() == sig for a slice read s: the exception the slice raises, or
\* the result of the comparison
list_eq(s, sig) ==
    IF s.err # NoError THEN [err |-> s.err, val |-> FALSE]
    ELSE [err |-> NoError, val |-> s.val[1] = sig]

\* (self[offset:offset + len(data)].to_list() == data)
signature_at(d, sz, offset, sig) ==
    list_eq(getitem_slice(d, sz, offset, offset + Len(sig)), sig)

\* (p and q): q is evaluated only when p holds, and an exception raised by p
\* is the outcome
and_then(p, q) ==
    IF p.err # NoError \/ ~p.val THEN p ELSE q

\* the condition of one try block of the SNES branch of _detect_type: the
\* checksum bytes at base + 0..3 and the signature at offset + shift, joined
\* by `and`, so that a part is evaluated only when the parts before it hold
snes_variant(d, sz, base, shift, desc) ==
    and_then(complement_pair(d, sz, base, base + 2),
             and_then(complement_pair(d, sz, base + 1, base + 3),
                      signature_at(d, sz, desc.offset + shift, desc.data)))

\* a try block without its except clause: every exception leaves the method
try_block_uncaught(c) ==
    c

\* try: <condition> except OutOfBoundsError: pass -- an OutOfBoundsError is
\* a condition that does not hold, any other exception leaves the method
try_block(c) ==
    IF c.err = OutOfBoundsError THEN [err |-> NoError, val |-> FALSE] ELSE c

\* one `if` of _detect_type on the outcome c of its condition: the exception
\* c raised leaves the method with self.data and self.size as they are, a
\* condition that holds gives the result hit, and one that does not hold
\* gives what the code after the `if` gives
if_block(c, hit, d, sz, rest) ==
    IF c.err # NoError
    THEN [err |-> c.err, type |-> ROM_TYPE_NAME_UNKNOWN, data |-> d, size |-> sz]
    ELSE IF c.val THEN hit
    ELSE rest

\* a careless header strip: the last HEADER_LEN bytes are dropped
strip_header_tail(d, sz) ==
    [data |-> ArraySlice(d, 0, d.len - HEADER_LEN), size |-> sz - HEADER_LEN]

\* self.data = self.data[0x200:]; self.size -= 0x200
strip_header(d, sz) ==
    [data |-> ArraySlice(d, HEADER_LEN, d.len), size |-> sz - HEADER_LEN]

\* Rom._detect_type from the k-th descriptor the dict yields on: the
\* exception it raises (then no type is returned: type is a filler), or the
\* type returned, and self.data and self.size as the detection leaves them
RECURSIVE detect_type_from(_, _, _)
detect_type_from(d, sz, k) ==
    IF k > Len(ROM_TYPE_MAP)
    THEN [err |-> NoError, type |-> ROM_TYPE_NAME_UNKNOWN, data |-> d, size |-> sz]
    ELSE
      LET desc == ROM_TYPE_MAP[k]
          found == [err |-> NoError, type |-> desc.name, data |-> d, size |-> sz]
          stripped == [err |-> NoError, type |-> desc.name,
                       data |-> strip_header(d, sz).data,
                       size |-> strip_header(d, sz).size]
      IN  IF desc.platform = "SNES"
          THEN if_block(try_block(snes_variant(d, sz, 65500, 0, desc)),          \* 0xffdc
                        found, d, sz,
               if_block(try_block(snes_variant(d, sz, 32732, 0, desc)),          \* 0x7fdc
                        found, d, sz,
               if_block(try_block(snes_variant(d, sz, 66012, HEADER_LEN, desc)), \* 0x101dc
                        stripped, d, sz,
               if_block(try_block(snes_variant(d, sz, 33244, HEADER_LEN, desc)), \* 0x81dc
                        stripped, d, sz,
               detect_type_from(d, sz, k + 1)))))
          ELSE if_block(try_block(signature_at(d, sz, desc.offset, desc.data)),
                        found, d, sz,
               detect_type_from(d, sz, k + 1))

\* Rom._detect_type
detect_type(d, sz) == detect_type_from(d, sz, 1)

\* ROM_TYPE_MAP[type_name]
Descriptor(type_name) ==
    ROM_TYPE_MAP[CHOOSE k \in 1..Len(ROM_TYPE_MAP) : ROM_TYPE_MAP[k].name = type_name]

\* the free ranges _setup_rom_post_load seeds for a type and a size
seed_ranges(type_name, sz) ==
    LET inside(r) == r[2] < sz
    IN  list_sort(SelectSeq(Descriptor(type_name).free_ranges, inside))

\* the rest of _setup_rom_post_load given the outcome r of _detect_type:
\* when _detect_type raised, self.type and the free list are not assigned
post_load(r, ranges, t) ==
    IF r.err # NoError
    THEN [err |-> r.err, type |-> t, data |-> r.data, size |-> r.size,
          ranges |-> ranges]
    ELSE [err |-> NoError, type |-> r.type, data |-> r.data, size |-> r.size,
          ranges |-> IF r.type # ROM_TYPE_NAME_UNKNOWN
                        /\ Descriptor(r.type).has_free_ranges
                     THEN seed_ranges(r.type, r.size)
                     ELSE ranges]

\* Rom._setup_rom_post_load on a Rom of type t
setup_rom_post_load(d, sz, ranges, t) ==
    post_load(detect_type(d, sz), ranges, t)

\* the type add_header and expand support
EARTHBOUND == "Earthbound"

\* the sizes expand knows: 0x300000, 0x400000 and 0x600000
SIZE_3MB == 3145728
SIZE_4MB == 4194304
SIZE_6MB == 6291456

\* n times array.insert(0, 0)
ArrayPrepend(d, n) ==
    [len |-> d.len + n,
     nz  |-> [i \in {j + n : j \in DOMAIN d.nz} |-> d.nz[i - n]]]

\* array.fromlist([0] * n)
ArrayExtend(d, n) == [len |-> d.len + n, nz |-> d.nz]

\* Rom.add_header
add_header(d, sz, t) ==
    IF t = EARTHBOUND /\ d = ArrayDeleted
    THEN [err |-> AttributeError, data |-> d, size |-> sz]
    ELSE IF t = EARTHBOUND
    THEN [err |-> NoError, data |-> ArrayPrepend(d, HEADER_LEN), size |-> sz + HEADER_LEN]
    ELSE [err |-> NotImplementedError, data |-> d, size |-> sz]

\* for i in xrange(lo, hi): self[shift + i] = self[i], for a target
\* shift + lo .. shift + hi - 1 that is in bounds and after the source, so
\* that no read sees a byte the loop wrote
copy_up(d, lo, hi, shift) ==
    [len |-> d.len,
     nz  |-> [j \in ({k \in DOMAIN d.nz : k < shift + lo \/ k >= shift + hi}
                     \cup {k + shift : k \in {m \in DOMAIN d.nz : m >= lo /\ m < hi}})
                |-> IF j >= shift + lo /\ j < shift + hi THEN d.nz[j - shift]
                    ELSE d.nz[j]]]

\* the first step of expand a careless edit would make: the bytes are
\* appended and self.size is left as it was
grow_to_4mb_keeps_size(d, sz) ==
    IF sz = SIZE_3MB
    THEN [data |-> ArrayExtend(d, 1048576), size |-> sz]
    ELSE [data |-> d, size |-> sz]

\* the first step of expand: an image of 0x300000 bytes is grown by 0x100000
grow_to_4mb(d, sz) ==
    IF sz = SIZE_3MB
    THEN [data |-> ArrayExtend(d, 1048576), size |-> sz + 1048576]
    ELSE [data |-> d, size |-> sz]

\* the copy a careless edit of the second step of expand would make: the
\* first 0x8000 bytes of the image, to 0x400000
mirror_bank_first(d) == copy_up(d, 0, 32768, SIZE_4MB)

\* the copy of the second step of expand: bytes 0x8000 .. 0xffff, to 0x408000
mirror_bank(d) == copy_up(d, 32768, 32768 + 32768, SIZE_4MB)

\* the second step of expand, on an image of 0x400000 bytes: the two control
\* bytes are set, 0x200000 bytes are appended and a bank is copied to them
grow_to_6mb(d, sz) ==
    LET w1 == setitem_int(d, sz, 65493, 37)               \* self[0x00ffd5] = 0x25
        w2 == setitem_int(w1.data, sz, 65495, 13)         \* self[0x00ffd7] = 0x0d
    IN  IF w1.err # NoError THEN [err |-> w1.err, data |-> d, size |-> sz]
        ELSE IF w2.err # NoError THEN [err |-> w2.err, data |-> w1.data, size |-> sz]
        ELSE [err |-> NoError,
              data |-> mirror_bank(ArrayExtend(w2.data, 2097152)),
              size |-> sz + 2097152]

\* Rom.expand
expand(d, sz, t, desired_size) ==
    IF t # EARTHBOUND THEN [err |-> NotImplementedError, data |-> d, size |-> sz]
    ELSE IF (desired_size # SIZE_4MB) /\ (desired_size # SIZE_6MB)
    THEN [err |-> InvalidArgumentError, data |-> d, size |-> sz]
    ELSE IF sz = SIZE_3MB /\ d = ArrayDeleted
    THEN [err |-> AttributeError, data |-> d, size |-> sz]
    ELSE LET g == grow_to_4mb(d, sz)
         IN  IF desired_size = SIZE_6MB /\ g.size = SIZE_4MB
             THEN grow_to_6mb(g.data, g.size)
             ELSE [err |-> NoError, data |-> g.data, size |-> g.size]

----------------------------------------------------------------------------
(* The paths from_file can be given: a name, and <<the bytes of the file>>, *)
(* or <<>> for a path os.path.getsize fails on (nothing is there), or      *)
(* <<n, e, d>> for a path getsize gives n for and the open or the read     *)
(* fails on with the exception e after the bytes d were read:              *)
(* Unopenable(n) when open() fails (a directory, a file without read       *)
(* permission), ReadError(n, d) when the read fails with an I/O error      *)
(* after d, ShortRead(n, d) when the file ends after d, with fewer bytes   *)
(* than n (a file that reports more than it holds, or is cut while it is   *)
(* read), TooLarge(n) when there is no memory for n bytes.  A file's bytes *)
(* are its length and its non-zero bytes.                                  *)

SparseFile(n, bytes) == [len |-> n, nz |-> bytes]

\* array.fromfile raises IOError after it stored d: line 45 catches it
ReadError(n, d) == <<n, FileAccessError, d>>

\* open() raises IOError: nothing was read
Unopenable(n) == ReadError(n, ArrayEmpty)

\* array.fromfile raises EOFError after it stored d: line 45 lets it pass
ShortRead(n, d) == <<n, EOFError, d>>

\* array.fromfile raises MemoryError before it reads: line 45 lets it pass
TooLarge(n) == <<n, MemoryError, ArrayEmpty>>

\* a HiROM image: complement checksum at 0xffdc and the signature at 0xffc0
HiRomBytes(shift) ==
    [i \in {65472 + shift, 65473 + shift, 65500 + shift, 65501 + shift,
            65502 + shift, 65503 + shift}
       |-> IF i = 65472 + shift THEN 69
           ELSE IF i = 65473 + shift THEN 65
           ELSE IF i = 65500 + shift THEN 18
           ELSE IF i = 65501 + shift THEN 52
           ELSE IF i = 65502 + shift THEN 237
           ELSE 203]

\* an image with a byte in its first bank and one in its second, besides
\* the HiROM checksum and signature
BankBytes == (5 :> 9) @@ (40000 :> 8) @@ HiRomBytes(0)

FileSystem ==
    [name \in {"tiny.bin", "generic.bin", "plain.bin", "hirom.smc", "headered.smc",
               "eb3.smc", "eb4.smc", "missing.bin", "folder", "short.bin",
               "ioerr.bin", "huge.bin"} |->
        IF name = "tiny.bin" THEN <<ArrayFromList(<<1, 2, 3, 4>>)>>
        ELSE IF name = "generic.bin" THEN <<ArrayFromList(<<78, 69, 0, 0, 0, 7>>)>>
        ELSE IF name = "plain.bin" THEN <<ArrayFromList(<<0, 71, 0>>)>>
        ELSE IF name = "hirom.smc" THEN <<SparseFile(66304, HiRomBytes(0))>>
        ELSE IF name = "headered.smc" THEN <<SparseFile(66816, HiRomBytes(HEADER_LEN))>>
        ELSE IF name = "eb3.smc" THEN <<SparseFile(SIZE_3MB, BankBytes)>>
        ELSE IF name = "eb4.smc" THEN <<SparseFile(SIZE_4MB, (SIZE_3MB :> 7) @@ BankBytes)>>
        ELSE IF name = "folder" THEN Unopenable(4096)
        ELSE IF name = "short.bin"
        THEN ShortRead(4096, ArrayFromList(<<48, 45, 51, 10>>))
        ELSE IF name = "ioerr.bin"
        THEN ReadError(4096, ArrayFromList(<<48, 45>>))
        ELSE IF name = "huge.bin" THEN TooLarge(1073741824)
        ELSE <<>>]

\* images built to probe the detector: p[1] is the set of marks the image
\* carries and p[2] its length.  A mark is a complement checksum at one of
\* the four offsets the SNES branch reads ("sumHi" 0xffdc, "sumLo" 0x7fdc,
\* "sumHiH" 0x101dc, "sumLoH" 0x81dc), the signature of the first SNES
\* descriptor at 0xffc0 ("sig") or 0x200 later ("sigH"), that of the second
\* at 0xffc2 ("sig2") or 0x200 later ("sig2H"), or the generic signature at
\* 0 ("gen").
ProbeMarks == {"sumHi", "sumLo", "sumHiH", "sumLoH", "sig", "sigH", "gen",
               "sig2", "sig2H"}

ProbeBase(mark) ==
    IF mark = "sumHi" THEN 65500 ELSE IF mark = "sumLo" THEN 32732
    ELSE IF mark = "sumHiH" THEN 66012 ELSE IF mark = "sumLoH" THEN 33244
    ELSE IF mark = "sig" THEN 65472 ELSE IF mark = "sigH" THEN 65984
    ELSE IF mark = "sig2" THEN 65474 ELSE IF mark = "sig2H" THEN 65986 ELSE 0

ProbeValues(mark) ==
    IF mark \in {"sig", "sigH"} THEN <<69, 65>>
    ELSE IF mark \in {"sig2", "sig2H"} THEN <<90>>
    ELSE IF mark = "gen" THEN <<78, 69>>
    ELSE <<18, 52, 237, 203>>

ProbeFile(p) ==
    LET at(mark) == {ProbeBase(mark) + k : k \in 0..(Len(ProbeValues(mark)) - 1)}
        pos == {i \in UNION {at(mark) : mark \in p[1]} : i < p[2]}
        markOf(i) == CHOOSE mark \in p[1] : i \in at(mark)
    IN  <<SparseFile(p[2], [i \in pos |->
                                ProbeValues(markOf(i))[i - ProbeBase(markOf(i)) + 1]])>>

----------------------------------------------------------------------------
(* The methods, as actions on a Rom *)

Called(name, a, e, r) == op' = name /\ args' = a /\ err' = e /\ ret' = r

\* the size an allocate call asks for (0 when it gives neither data nor size)
RequestedSize(a) ==
    IF a[2] # <<>> THEN a[2][1] ELSE IF a[1] # <<>> THEN Len(a[1][1]) ELSE 0

\* the history of regions, in the order they were returned: a region a call
\* returned is held by the caller until a byte of it is deallocated
HandOut(held, range) ==
    IF held = None THEN None ELSE <<Append(held[1], range)>>

TakeBack(held, range) ==
    LET apart(h) == (h[2] < range[1]) \/ (range[2] < h[1])
    IN  IF held = None THEN None ELSE <<SelectSeq(held[1], apart)>>

\* Rom.reset (through AllocatableBlock.reset and Block.reset)
ResetState == [data |-> ArrayEmpty, size |-> 0, unallocated_ranges |-> <<>>,
               type |-> ROM_TYPE_NAME_UNKNOWN]

\* Rom.__init__
Init ==
    /\ data = ResetState.data
    /\ size = ResetState.size
    /\ unallocated_ranges = ResetState.unallocated_ranges
    /\ type = ResetState.type
    /\ op = "__init__" /\ args = <<>> /\ err = NoError /\ ret = None
    /\ handed_out = None /\ headers = 0

\* Rom.from_file on a path that holds f: Block.from_file (which resets
\* first, and sets self.size before it opens the file), then
\* _setup_rom_post_load when the file was read.  An IOError or OSError of
\* getsize, open or the read is caught and raised as FileAccessError; the
\* EOFError of a read that gives fewer bytes than self.size, and the
\* MemoryError of one that is too large, are not caught.
\* The bytes read before the failure stay in self.data.
FromFileBytes(filename, f) ==
    /\ IF f = <<>>
       THEN /\ data' = ResetState.data
            /\ size' = ResetState.size
            /\ unallocated_ranges' = ResetState.unallocated_ranges
            /\ type' = ResetState.type
            /\ Called("from_file", <<filename>>, FileAccessError, None)
       ELSE IF Len(f) = 3
       THEN /\ data' = f[3]
            /\ size' = f[1]
            /\ unallocated_ranges' = ResetState.unallocated_ranges
            /\ type' = ResetState.type
            /\ Called("from_file", <<filename>>, f[2], None)
       ELSE LET s == setup_rom_post_load(f[1], f[1].len, ResetState.unallocated_ranges,
                                        ResetState.type)
            IN  /\ data' = s.data
                /\ size' = s.size
                /\ unallocated_ranges' = s.ranges
                /\ type' = s.type
                /\ Called("from_file", <<filename>>, s.err, None)
    /\ handed_out' = IF handed_out = None THEN None ELSE << <<>> >>
    /\ headers' = 0

FromFile(filename) == FromFileBytes(filename, FileSystem[filename])

\* Rom.reset
Reset ==
    /\ data' = ResetState.data
    /\ size' = ResetState.size
    /\ unallocated_ranges' = ResetState.unallocated_ranges
    /\ type' = ResetState.type
    /\ Called("reset", <<>>, NoError, None)
    /\ handed_out' = IF handed_out = None THEN None ELSE << <<>> >>
    /\ headers' = 0

\* Block.__exit__: del self.data, which fails when it was deleted before
Exit ==
    /\ data' = ArrayDeleted
    /\ Called("__exit__", <<>>, IF data = ArrayDeleted THEN AttributeError ELSE NoError,
              None)
    /\ UNCHANGED <<size, unallocated_ranges, type, handed_out, headers>>

\* Rom.from_list (Block.from_list): self.size is set, then the old array is
\* deleted (which fails when it was deleted before) and the new one filled
FromList(data_list) ==
    /\ size' = Len(data_list)
    /\ data' = IF data = ArrayDeleted THEN data ELSE ArrayFromList(data_list)
    /\ Called("from_list", <<data_list>>,
              IF data = ArrayDeleted THEN AttributeError ELSE NoError, None)
    /\ UNCHANGED <<unallocated_ranges, type, handed_out, headers>>

\* Rom.from_array (Block.from_array): self.size is set, then the old array
\* is deleted and data_array is copied
FromArray(data_array) ==
    /\ size' = data_array.len
    /\ data' = IF data = ArrayDeleted THEN data ELSE data_array
    /\ Called("from_array", <<data_array>>,
              IF data = ArrayDeleted THEN AttributeError ELSE NoError, None)
    /\ UNCHANGED <<unallocated_ranges, type, handed_out, headers>>

\* block[key], key an int
GetItem(key) ==
    LET r == getitem_int(data, size, key)
    IN  /\ Called("getitem", <<key>>, r.err, r.val)
        /\ UNCHANGED <<data, size, unallocated_ranges, type, handed_out, headers>>

\* block[start:stop], as a list
GetItemSlice(start, stop) ==
    LET r == getitem_slice(data, size, start, stop)
    IN  /\ Called("getitem_slice", <<start, stop>>, r.err, r.val)
        /\ UNCHANGED <<data, size, unallocated_ranges, type, handed_out, headers>>

\* block[key] = item, key and item ints
SetItem(key, item) ==
    LET r == setitem_int(data, size, key, item)
    IN  /\ data' = r.data
        /\ Called("setitem", <<key, item>>, r.err, None)
        /\ UNCHANGED <<size, unallocated_ranges, type, handed_out, headers>>

\* block[start:stop] = item, item a list or an array of bytes
SetItemSlice(start, stop, item) ==
    LET r == setitem_slice(data, size, start, stop, item)
    IN  /\ data' = r.data
        /\ Called("setitem_slice", <<start, stop, item>>, r.err, None)
        /\ UNCHANGED <<size, unallocated_ranges, type, handed_out, headers>>

ReadMulti(key, n) ==
    LET r == read_multi(data, size, key, n)
    IN  /\ Called("read_multi", <<key, n>>, r.err, r.val)
        /\ UNCHANGED <<data, size, unallocated_ranges, type, handed_out, headers>>

WriteMulti(key, item, n) ==
    LET r == write_multi(data, size, key, item, n)
    IN  /\ data' = r.data
        /\ Called("write_multi", <<key, item, n>>, r.err, None)
        /\ UNCHANGED <<size, unallocated_ranges, type, handed_out, headers>>

MarkAllocated(used_range) ==
    LET r == mark_allocated(unallocated_ranges, size, used_range)
    IN  /\ unallocated_ranges' = r.ranges
        /\ Called("mark_allocated", <<used_range>>, r.err, None)
        /\ handed_out' = IF r.err = NoError THEN HandOut(handed_out, used_range)
                         ELSE handed_out
        /\ UNCHANGED <<data, size, type, headers>>

IsUnallocated(range) ==
    LET r == is_unallocated(unallocated_ranges, size, range)
    IN  /\ Called("is_unallocated", <<range>>, r.err, r.val)
        /\ UNCHANGED <<data, size, unallocated_ranges, type, handed_out, headers>>

IsAllocated(range) ==
    LET r == is_allocated(unallocated_ranges, size, range)
    IN  /\ Called("is_allocated", <<range>>, r.err, r.val)
        /\ UNCHANGED <<data, size, unallocated_ranges, type, handed_out, headers>>

\* the free list of the model holds at most MaxRanges entries when a range
\* is appended
MaxRanges == 3

Deallocate(range) ==
    /\ Len(unallocated_ranges) < MaxRanges
    /\ LET r == deallocate(unallocated_ranges, size, range)
       IN  /\ unallocated_ranges' = r.ranges
           /\ Called("deallocate", <<range>>, r.err, None)
           /\ handed_out' = IF r.err = NoError THEN TakeBack(handed_out, range)
                            ELSE handed_out
           /\ UNCHANGED <<data, size, type, headers>>

Allocate(data_arg, size_arg, can_write_to) ==
    LET r == allocate(data, size, unallocated_ranges, data_arg, size_arg, can_write_to)
    IN  /\ data' = r.data
        /\ unallocated_ranges' = r.ranges
        /\ Called("allocate", <<data_arg, size_arg, can_write_to>>, r.err, r.val)
        /\ handed_out' =
               IF r.err = NoError
               THEN HandOut(handed_out,
                            <<r.val[1], r.val[1] + RequestedSize(
                                  <<data_arg, size_arg, can_write_to>>) - 1>>)
               ELSE handed_out
        /\ UNCHANGED <<size, type, headers>>

\* the model follows at most MaxHeaders calls of add_header on an image
MaxHeaders == 1

AddHeader ==
    /\ headers < MaxHeaders
    /\ LET r == add_header(data, size, type)
       IN  /\ data' = r.data
           /\ size' = r.size
           /\ headers' = IF r.err = NoError THEN headers + 1 ELSE headers
           /\ Called("add_header", <<>>, r.err, None)
           /\ UNCHANGED <<unallocated_ranges, type, handed_out>>

Expand(desired_size) ==
    LET r == expand(data, size, type, desired_size)
    IN  /\ data' = r.data
        /\ size' = r.size
        /\ Called("expand", <<desired_size>>, r.err, None)
        /\ UNCHANGED <<unallocated_ranges, type, handed_out, headers>>

----------------------------------------------------------------------------
(* The allocator on a buffer of AllocLen bytes *)

AllocLen == 3

\* ranges as callers give them: the valid ones, a reversed one and two that
\* are out of bounds
ValidRanges == {r \in (0..(AllocLen - 1)) \X (0..(AllocLen - 1)) : r[1] <= r[2]}

AllocRanges == ValidRanges \cup {<<1, 0>>, <<-1, 0>>, <<0, AllocLen>>}

\* placement predicates: None, even offsets only, nowhere
Placements == {<<>>, <<{o \in 0..AllocLen : o % 2 = 0}>>, <<{}>>}

AllocSizes == {<<>>} \cup {<<n>> : n \in 0..AllocLen}

AllocData == {<<>>}

InitAlloc ==
    /\ data = ArrayFromList([i \in 1..AllocLen |-> 0])
    /\ size = AllocLen
    /\ unallocated_ranges = <<>>
    /\ type = ROM_TYPE_NAME_UNKNOWN
    /\ op = "from_list" /\ args = <<[i \in 1..AllocLen |-> 0]>>
    /\ err = NoError /\ ret = None
    /\ handed_out = None /\ headers = 0

NextAlloc ==
    \/ \E r \in AllocRanges : Deallocate(r)
    \/ \E r \in AllocRanges : MarkAllocated(r)
    \/ \E r \in AllocRanges : IsAllocated(r)
    \/ \E d \in AllocData, n \in AllocSizes, p \in Placements : Allocate(d, n, p)

SpecAlloc == InitAlloc /\ [][NextAlloc]_vars

----------------------------------------------------------------------------
(* The byte accessors on a buffer of BlockLen bytes *)

BlockLen == 3
MaxWidth == 2

BlockLists == {[i \in 1..BlockLen |-> 0], [i \in 1..BlockLen |-> 250 + i]}

BlockKeys == -(BlockLen + 1)..(BlockLen + 1)

ByteItems == {-1, 7, 256}

MultiItems == {0, 66051}

\* slices as <<start, stop>>: two that fit a pair of bytes, a reversed one,
\* an empty one, one starting before the buffer and one ending after it
BlockSlices == {<<0, 2>>, <<1, 3>>, <<2, 1>>, <<1, 1>>, <<-1, 1>>,
                <<BlockLen - 1, BlockLen + 1>>}

SliceItems == {<<7, 0>>, <<7>>, <<>>}

InitBlock ==
    \E l \in BlockLists :
        /\ data = ArrayFromList(l)
        /\ size = Len(l)
        /\ unallocated_ranges = <<>>
        /\ type = ROM_TYPE_NAME_UNKNOWN
        /\ op = "from_list" /\ args = <<l>> /\ err = NoError /\ ret = None
        /\ handed_out = None /\ headers = 0

NextBlock ==
    \/ \E k \in BlockKeys : GetItem(k)
    \/ \E k \in BlockKeys, v \in ByteItems : SetItem(k, v)
    \/ \E k \in BlockSlices : GetItemSlice(k[1], k[2])
    \/ \E k \in BlockSlices, v \in SliceItems : SetItemSlice(k[1], k[2], v)
    \/ \E k \in BlockKeys, n \in -1..MaxWidth : ReadMulti(k, n)
    \/ \E k \in BlockKeys, v \in MultiItems, n \in -1..MaxWidth : WriteMulti(k, v, n)
    \/ Exit

SpecBlock == InitBlock /\ [][NextBlock]_vars

----------------------------------------------------------------------------
(* Properties of the allocator *)

\* the bytes of a range, and the bytes a free list covers
RangeBytes(r) == r[1]..r[2]
FreeBytes(ranges) == UNION {RangeBytes(ranges[i]) : i \in 1..Len(ranges)}

\* no two entries overlap or touch
NoTouchOrOverlap(ranges) ==
    \A i, j \in 1..Len(ranges) :
        i # j => (ranges[i][2] + 1 < ranges[j][1]) \/ (ranges[j][2] + 1 < ranges[i][1])

\* the entries are in non-decreasing order of begin
SortedByBegin(ranges) ==
    \A i, j \in 1..Len(ranges) : i < j => ranges[i][1] <= ranges[j][1]

\* the arguments allocate accepts: data or size, agreeing, and size >= 1
ValidAllocArgs(a) ==
    /\ (a[1] # <<>>) \/ (a[2] # <<>>)
    /\ (a[1] # <<>> /\ a[2] # <<>>) => a[2][1] = Len(a[1][1])
    /\ RequestedSize(a) >= 1

\* the entries an allocate call with arguments a could take
Qualifying(ranges, a) ==
    {i \in 1..Len(ranges) :
        /\ ranges[i][2] - ranges[i][1] + 1 >= RequestedSize(a)
        /\ (a[3] = <<>> \/ ranges[i][1] \in a[3][1])}

\* C1: allocate and mark_allocated preserve disjointness: from a free list
\* whose entries pairwise neither overlap nor touch, a call of allocate or
\* mark_allocated, whether it returns or raises, leaves a free list whose
\* entries pairwise neither overlap nor touch.
C1_DisjointnessPreserved ==
    [][(NoTouchOrOverlap(unallocated_ranges) /\ op' \in {"allocate", "mark_allocated"})
        => NoTouchOrOverlap(unallocated_ranges')]_vars

\* mark_allocated has split an entry around the range it was given
C1_Witness ==
    /\ op = "mark_allocated" /\ err = NoError
    /\ \E i, j \in 1..Len(unallocated_ranges) :
          /\ unallocated_ranges[i][2] = args[1][1] - 1
          /\ unallocated_ranges[j][1] = args[1][2] + 1
    /\ NoTouchOrOverlap(unallocated_ranges)

\* C2: the free list is sorted by begin in every state reachable by
\* deallocate, allocate and mark_allocated.
C2_AlwaysSorted == SortedByBegin(unallocated_ranges)

\* C3: after mark_allocated(range) has returned, is_allocated(range) is True.
C3_MarkedIsAllocated ==
    (op = "mark_allocated" /\ err = NoError)
        => is_allocated(unallocated_ranges, size, args[1]).val = Returns(TRUE)

\* C4: when allocate returns offset o for size N, every byte of [o, o+N-1]
\* was covered by a free entry immediately before the call.
C4_AllocatedWasFree ==
    [][(op' = "allocate" /\ err' = NoError)
        => (ret'[1]..(ret'[1] + RequestedSize(args') - 1))
              \subseteq FreeBytes(unallocated_ranges)]_vars

\* allocate has returned an offset for a request of two bytes or more
C4_Witness ==
    /\ op = "allocate" /\ err = NoError
    /\ RequestedSize(args) >= 2
    /\ ret[1] > 0
    /\ unallocated_ranges # <<>>

\* C5: first fit: an allocate that returns gives the smallest begin among
\* the free ranges that are long enough and pass the predicate, and allocate
\* raises NotEnoughUnallocatedSpaceError exactly when there is no such range.
C5_FirstFit ==
    [][(op' = "allocate" /\ ValidAllocArgs(args'))
        => LET q == Qualifying(unallocated_ranges, args')
           IN  /\ (err' = NotEnoughUnallocatedSpaceError) <=> (q = {})
               /\ (err' = NoError) =>
                     ret'[1] = SetMin({unallocated_ranges[i][1] : i \in q})]_vars

\* C10: mark_allocated on a valid range raises CouldNotAllocateError exactly
\* when some byte of the range is covered by no free entry.
C10_MarkFailsIffNotFree ==
    [][(op' = "mark_allocated" /\ check_range_validity(args'[1], size) = NoError)
        => ((err' = CouldNotAllocateError)
               <=> ~(RangeBytes(args'[1]) \subseteq FreeBytes(unallocated_ranges)))]_vars

----------------------------------------------------------------------------
(* Properties of the byte accessors *)

\* C7: block[offset] and block[offset] = value (value a byte) raise
\* OutOfBoundsError for every offset outside [0, size), negative offsets
\* included, and leave the buffer as it was.
C7_SingleByteBoundsChecked ==
    [][(/\ op' \in {"getitem", "setitem"}
        /\ args'[1] \notin 0..(size - 1)
        /\ (op' = "setitem" => args'[2] \in 0..255))
        => (err' = OutOfBoundsError /\ data' = data)]_vars

\* C8: when write_multi(o, v, w) with v >= 0 returns, read_multi(o, w)
\* returns v mod 2^(8w), and the bytes outside [o, o+w) are as before.
C8_MultiRoundTrip ==
    [][(op' = "write_multi" /\ err' = NoError /\ args'[2] >= 0)
        => LET o == args'[1]
               v == args'[2]
               w == args'[3]
           IN  /\ read_multi(data', size', o, w)
                    = [err |-> NoError, val |-> Returns(v % (2 ^ (8 * w)))]
               /\ data'.len = data.len
               /\ \A i \in 0..(data.len - 1) :
                     i \notin o..(o + w - 1) => ByteAt(data', i) = ByteAt(data, i)]_vars

\* write_multi has stored the two low bytes of a three-byte value
C8_Witness ==
    /\ op = "write_multi" /\ err = NoError
    /\ args[2] = 66051 /\ args[3] = 2
    /\ read_multi(data, size, args[1], 2).val = Returns(515)

\* C9: write_multi(offset, value, width) raises exactly when
\* read_multi(offset, width) raises, and raises the same exception.
C9_SameChecks ==
    [][op' = "write_multi" => err' = read_multi(data, size, args'[1], args'[3]).err]_vars

----------------------------------------------------------------------------
(* A Rom through its whole life *)

RomFiles == {"tiny.bin", "generic.bin", "plain.bin", "hirom.smc", "missing.bin",
             "folder", "short.bin", "ioerr.bin", "huge.bin"}

RomLists == {<<>>, <<78, 69, 0>>}

RomArrays == {ArrayFromList(<<0, 71, 0, 0>>)}

RomRanges == {<<0, 1>>}

RomAllocData == {<<>>, << <<9>> >>}

RomAllocSizes == {<<>>}

RomTargets == {SIZE_6MB, 0}

Next ==
    \/ \E f \in RomFiles : FromFile(f)
    \/ \E l \in RomLists : FromList(l)
    \/ \E a \in RomArrays : FromArray(a)
    \/ \E r \in RomRanges : Deallocate(r)
    \/ \E r \in RomRanges : MarkAllocated(r)
    \/ IsAllocated(<<0, 1>>)
    \/ IsUnallocated(<<0, 1>>)
    \/ \E d \in RomAllocData, n \in RomAllocSizes : Allocate(d, n, <<>>)
    \/ GetItem(-1)
    \/ SetItem(0, 7)
    \/ SetItemSlice(0, 2, <<7, 0>>)
    \/ ReadMulti(0, 2)
    \/ WriteMulti(0, 7, 1)
    \/ AddHeader
    \/ \E n \in RomTargets : Expand(n)
    \/ Reset
    \/ Exit

Spec == Init /\ [][Next]_vars

\* what a population call was given to load
Populated(o, a) ==
    IF o = "from_file" THEN FileSystem[a[1]][1]
    ELSE IF o = "from_list" THEN ArrayFromList(a[1])
    ELSE a[1]

\* C6: re-population discards the prior state: after from_file, from_list or
\* from_array the free list is empty or is the one detection seeds, and the
\* type is Unknown or the one detection gives for the new content.
C6_RepopulationDiscards ==
    [][(op' \in {"from_file", "from_list", "from_array"} /\ err' = NoError)
        => /\ \/ unallocated_ranges' = <<>>
              \/ /\ type' # ROM_TYPE_NAME_UNKNOWN
                 /\ Descriptor(type').has_free_ranges
                 /\ unallocated_ranges' = seed_ranges(type', size')
           /\ type' \in {ROM_TYPE_NAME_UNKNOWN,
                         detect_type(Populated(op', args'),
                                     Populated(op', args').len).type}]_vars

----------------------------------------------------------------------------
(* Format detection on the probe images *)

\* the lengths of the probe images: empty, ending inside the checksum at
\* 0x7fdc, ending between the signature and the checksum at 0xffdc, ending
\* between the later signature and the checksum at 0x101dc, and holding
\* every probed offset
ProbeLens == {0, 32734, 65480, 66000, 66304}

\* every choice of the checksums and of the signature of the first SNES
\* descriptor; the generic signature alone and in an unheadered and a
\* headered SNES image; and images with the signature of the second SNES
\* descriptor, alone and with the first descriptor's in the other position
ProbeMarkSets ==
    (SUBSET {"sumHi", "sumLo", "sumHiH", "sumLoH", "sig", "sigH"})
        \cup {{"gen"}, {"gen", "sumHi", "sig"}, {"gen", "sumHiH", "sigH"}}
        \cup {{"sumHi", "sig2"}, {"sumLo", "sig2"},
              {"sumHiH", "sig2H"}, {"sumLoH", "sig2H"},
              {"sumHi", "sumHiH", "sigH", "sig2"},
              {"sumHi", "sumHiH", "sig", "sig2H"},
              {"sumLo", "sumLoH", "sigH", "sig2"}}

ProbeNames == ProbeMarkSets \X ProbeLens

\* reads that fail: <<marks, length, exception, bytes read before it>>
ProbeFailures ==
    {<<{"sumHi", "sig"}, 66304, e, k>> : e \in {FileAccessError, EOFError},
                                         k \in {0, 65480}}
        \cup {<<{"sumHi", "sig"}, 66304, MemoryError, 0>>}

\* what the path of a failing read holds
FailedRead(p) ==
    LET d == ArraySlice(ProbeFile(<<p[1], p[2]>>)[1], 0, p[4])
    IN  IF p[3] = EOFError THEN ShortRead(p[2], d)
        ELSE IF p[3] = MemoryError THEN TooLarge(p[2])
        ELSE ReadError(p[2], d)

NextDetect ==
    \/ \E p \in ProbeNames : FromFileBytes(p, ProbeFile(p))
    \/ \E p \in ProbeFailures : FromFileBytes(p, FailedRead(p))

SpecDetect == Init /\ [][NextDetect]_vars

\* the bytes of an image f, read directly: a complement checksum at base,
\* and a signature at an offset
ChecksumAt(f, base) ==
    /\ base + 3 < f.len
    /\ ByteAt(f, base) + ByteAt(f, base + 2) = 255
    /\ ByteAt(f, base + 1) + ByteAt(f, base + 3) = 255

SignatureAt(f, offset, sig) ==
    /\ offset + Len(sig) <= f.len
    /\ \A k \in 1..Len(sig) : ByteAt(f, offset + k - 1) = sig[k]

PassesUnheadered(f, desc) ==
    /\ ChecksumAt(f, 65500) \/ ChecksumAt(f, 32732)
    /\ SignatureAt(f, desc.offset, desc.data)

PassesHeadered(f, desc) ==
    /\ ChecksumAt(f, 66012) \/ ChecksumAt(f, 33244)
    /\ SignatureAt(f, desc.offset + 512, desc.data)

\* the buffer d holds the bytes of the image f from the offset shift on
SameBytes(d, f, shift) ==
    /\ d.len = f.len - shift
    /\ \A k \in DOMAIN f.nz : k >= shift => ByteAt(d, k - shift) = f.nz[k]
    /\ \A k \in DOMAIN d.nz : ByteAt(f, k + shift) = d.nz[k]

SnesDescriptors ==
    {ROM_TYPE_MAP[k] : k \in {j \in 1..Len(ROM_TYPE_MAP) :
                                  ROM_TYPE_MAP[j].platform = "SNES"}}

\* C11 as the specification words it: header stripping.  When detection
\* matches a headered variant the size is reduced by exactly 0x200 and byte
\* i of the buffer is byte i + 0x200 of the image; when an unheadered
\* variant or a generic signature matches, or nothing matches, size and
\* contents are those of the image.  An image that passes an unheadered
\* check (of any descriptor) is never stripped.
C11_HeaderStripping ==
    [][(op' = "from_file" /\ err' = NoError)
        => LET f == ProbeFile(args'[1])[1]
           IN  /\ IF /\ type' # ROM_TYPE_NAME_UNKNOWN
                     /\ Descriptor(type').platform = "SNES"
                     /\ ~PassesUnheadered(f, Descriptor(type'))
                  THEN /\ PassesHeadered(f, Descriptor(type'))
                       /\ size' = f.len - 512
                       /\ SameBytes(data', f, 512)
                  ELSE /\ size' = f.len
                       /\ SameBytes(data', f, 0)
               /\ (\E desc \in SnesDescriptors : PassesUnheadered(f, desc))
                     => (size' = f.len /\ SameBytes(data', f, 0))]_vars

\* C11, amended: header stripping.  When detection matches a headered
\* variant the size is reduced by exactly 0x200 and byte i of the buffer is
\* byte i + 0x200 of the image; when an unheadered variant or a generic
\* signature matches, or nothing matches, size and contents are those of
\* the image.  The variants are tried in a fixed order for each descriptor,
\* so an image is stripped only for a descriptor whose unheadered checks it
\* fails: an image that passes the unheadered check of the descriptor that
\* matches it is never stripped.
C11_HeaderStrippingPerDescriptor ==
    [][(op' = "from_file" /\ err' = NoError)
        => LET f == ProbeFile(args'[1])[1]
           IN  /\ IF /\ type' # ROM_TYPE_NAME_UNKNOWN
                     /\ Descriptor(type').platform = "SNES"
                     /\ ~PassesUnheadered(f, Descriptor(type'))
                  THEN /\ PassesHeadered(f, Descriptor(type'))
                       /\ size' = f.len - 512
                       /\ SameBytes(data', f, 512)
                  ELSE /\ size' = f.len
                       /\ SameBytes(data', f, 0)
               /\ (size' # f.len \/ ~SameBytes(data', f, 0))
                     => /\ type' # ROM_TYPE_NAME_UNKNOWN
                        /\ ~PassesUnheadered(f, Descriptor(type'))]_vars

\* an image that passes the headered check of one SNES descriptor and the
\* unheadered check of the other was loaded: it is typed by the descriptor
\* tried first and has lost its header
C11_Witness ==
    /\ op = "from_file" /\ err = NoError
    /\ args[1] = <<{"sumHi", "sumHiH", "sigH", "sig2"}, 66304>>
    /\ type = EARTHBOUND
    /\ PassesUnheadered(ProbeFile(args[1])[1], Descriptor("Mother"))
    /\ size = 66304 - 512
    /\ DOMAIN data.nz # {}

\* no variant of any descriptor matches the image f
NoVariantMatches(f) ==
    \A k \in 1..Len(ROM_TYPE_MAP) :
        LET desc == ROM_TYPE_MAP[k]
        IN  IF desc.platform = "SNES"
            THEN ~PassesUnheadered(f, desc) /\ ~PassesHeadered(f, desc)
            ELSE ~SignatureAt(f, desc.offset, desc.data)

\* C12: detection never raises on a short buffer.  Loading a readable image
\* of any length, the empty one included, raises nothing; a probe that is
\* out of bounds is a non-match for its variant only, so a later variant
\* that matches is still found; and when nothing matches the type is
\* Unknown and the free list is empty.  (A from_file that raises has failed
\* in the read, before detection: the type is Unknown and the free list
\* empty.)
C12_ShortBufferSafe ==
    [][op' = "from_file"
        => IF Len(args'[1]) = 2
           THEN LET f == ProbeFile(args'[1])[1]
                IN  /\ err' = NoError
                    /\ NoVariantMatches(f)
                          => /\ type' = ROM_TYPE_NAME_UNKNOWN
                             /\ unallocated_ranges' = <<>>
                             /\ size' = f.len
                    /\ ~NoVariantMatches(f) => type' # ROM_TYPE_NAME_UNKNOWN
           ELSE /\ err' = args'[1][3]
                /\ type' = ROM_TYPE_NAME_UNKNOWN
                /\ unallocated_ranges' = <<>>]_vars

\* an image too short for the checksum at 0xffdc was matched by the
\* variant that reads the checksum at 0x7fdc
C12_Witness ==
    /\ op = "from_file" /\ err = NoError
    /\ args[1][2] = 65480
    /\ args[1][1] = {"sumHi", "sumLo", "sig"}
    /\ type = EARTHBOUND

----------------------------------------------------------------------------
(* Headers and expansion *)

ExpandFiles == {"eb3.smc", "eb4.smc", "hirom.smc", "generic.bin", "tiny.bin",
                "missing.bin", "folder", "short.bin", "ioerr.bin", "huge.bin"}

\* the targets expand is given: the two it knows, one between them and 0
ExpandTargets == {SIZE_4MB, SIZE_6MB, 5242880, 0}

\* the control bytes, and a byte of each copied bank
ExpandKeys == {65493, 65495, SIZE_4MB + 5, SIZE_4MB + 40000}

NextExpand ==
    \/ \E f \in ExpandFiles : FromFile(f)
    \/ \E n \in ExpandTargets : Expand(n)
    \/ AddHeader
    \/ \E k \in ExpandKeys : GetItem(k)

SpecExpand == Init /\ [][NextExpand]_vars

\* an expand call that took the image to 0x600000 bytes
ExpandedTo6MB ==
    /\ op' = "expand" /\ err' = NoError
    /\ size # SIZE_6MB /\ size' = SIZE_6MB

\* C13 as the specification words it: expanding to 0x600000 copies the
\* first 0x8000 bytes of the image to 0x400000, so that byte 0x400000 + i is
\* byte i for i in [0, 0x8000), and the rest of the appended region is zero.
C13_CopiesFirstBank ==
    [][ExpandedTo6MB
        => /\ \A i \in 0..(32768 - 1) : ByteAt(data', SIZE_4MB + i) = ByteAt(data', i)
           /\ \A k \in DOMAIN data'.nz : k >= SIZE_4MB => k < SIZE_4MB + 32768]_vars

\* C13, amended: expanding to 0x600000 copies bytes 0x8000 .. 0xffff of the
\* image to 0x408000, so that byte 0x400000 + i is byte i for i in
\* [0x8000, 0x10000), and the rest of the appended region is zero.
C13_CopiesSecondBank ==
    [][ExpandedTo6MB
        => /\ \A i \in 32768..(65536 - 1) :
                  ByteAt(data', SIZE_4MB + i) = ByteAt(data', i)
           /\ \A k \in DOMAIN data'.nz :
                  k >= SIZE_4MB => (k >= SIZE_4MB + 32768 /\ k < SIZE_4MB + 65536)]_vars

\* an image with a byte in each of its first two banks was expanded to
\* 0x600000 bytes: the byte of the second bank is in the appended region
C13_Witness ==
    /\ op = "expand" /\ err = NoError /\ size = SIZE_6MB
    /\ ByteAt(data, 5) = 9
    /\ ByteAt(data, 40000) = 8
    /\ ByteAt(data, SIZE_4MB + 40000) = 8

\* C14: the boundary of expansion.  On an image of the supported type, a
\* target other than 0x400000 and 0x600000 raises InvalidArgumentError and
\* leaves size and contents as they were; expand(0x600000) on an image of
\* 0x300000 bytes returns with exactly 0x600000 bytes and the control bytes
\* 0x25 at 0xffd5 and 0x0d at 0xffd7.  On an image of any other type expand
\* raises NotImplementedError and changes nothing.
C14_ExpandBoundary ==
    [][op' = "expand"
        => /\ (type = EARTHBOUND /\ args'[1] \notin {SIZE_4MB, SIZE_6MB})
                 => (err' = InvalidArgumentError /\ size' = size /\ data' = data)
           /\ (type = EARTHBOUND /\ args'[1] = SIZE_6MB /\ size = SIZE_3MB)
                 => /\ err' = NoError
                    /\ size' = SIZE_6MB /\ data'.len = SIZE_6MB
                    /\ ByteAt(data', 65493) = 37
                    /\ ByteAt(data', 65495) = 13
           /\ type # EARTHBOUND
                 => (err' = NotImplementedError /\ size' = size /\ data' = data)
           /\ UNCHANGED <<unallocated_ranges, type>>]_vars

\* the image of 0x300000 bytes (its byte at 0x300000 is an appended zero)
\* was expanded to 0x600000 bytes
C14_Witness ==
    /\ op = "expand" /\ args = <<SIZE_6MB>> /\ err = NoError
    /\ size = SIZE_6MB /\ data.len = SIZE_6MB
    /\ ByteAt(data, SIZE_3MB) = 0
    /\ ByteAt(data, 65493) = 37 /\ ByteAt(data, 65495) = 13

----------------------------------------------------------------------------
(* The free list and the size of the buffer *)

\* every entry of the free list is a range of the buffer
RangesInBounds(ranges, sz) ==
    \A i \in 1..Len(ranges) :
        0 <= ranges[i][1] /\ ranges[i][1] <= ranges[i][2] /\ ranges[i][2] < sz

\* C15: the free ranges stay within the buffer.  In every state a Rom
\* reaches by population, detection, add_header, expand, allocate,
\* mark_allocated and deallocate, every entry (begin, end) of the free list
\* has 0 <= begin <= end < size.
C15_RangesInBounds == RangesInBounds(unallocated_ranges, size)

----------------------------------------------------------------------------
(* mark_allocated on a buffer of MarkLen bytes, long enough for a range to   *)
(* start inside a free entry and end past it                                *)

MarkLen == 4

MarkRanges ==
    {r \in (0..(MarkLen - 1)) \X (0..(MarkLen - 1)) : r[1] <= r[2]}
        \cup {<<1, 0>>, <<0, MarkLen>>}

\* the ranges deallocate is given: the first byte, all bytes but the last,
\* the last byte, and a reversed range; other entries are left by
\* mark_allocated
MarkFreed ==
    {<<0, 0>>, <<0, MarkLen - 2>>, <<MarkLen - 1, MarkLen - 1>>, <<1, 0>>}

InitMark ==
    /\ data = ArrayFromList([i \in 1..MarkLen |-> 0])
    /\ size = MarkLen
    /\ unallocated_ranges = <<>>
    /\ type = ROM_TYPE_NAME_UNKNOWN
    /\ op = "from_list" /\ args = <<[i \in 1..MarkLen |-> 0]>>
    /\ err = NoError /\ ret = None
    /\ handed_out = None /\ headers = 0

NextMark ==
    \/ \E r \in MarkFreed : Deallocate(r)
    \/ \E r \in MarkRanges : MarkAllocated(r)

SpecMark == InitMark /\ [][NextMark]_vars

----------------------------------------------------------------------------
(* The effect of mark_allocated *)

\* no two entries share a byte (entries may touch)
NoOverlap(ranges) ==
    \A i, j \in 1..Len(ranges) :
        i # j => (ranges[i][2] < ranges[j][1]) \/ (ranges[j][2] < ranges[i][1])

\* C16: the effect of a successful mark_allocated.  When mark_allocated
\* returns on a free list whose entries are pairwise disjoint, the free
\* bytes afterwards are the free bytes before minus exactly the bytes of the
\* range (all of which were free), and no byte of the buffer is written.
C16_MarkEffect ==
    [][(op' = "mark_allocated" /\ err' = NoError /\ NoOverlap(unallocated_ranges))
        => /\ RangeBytes(args'[1]) \subseteq FreeBytes(unallocated_ranges)
           /\ FreeBytes(unallocated_ranges')
                 = FreeBytes(unallocated_ranges) \ RangeBytes(args'[1])
           /\ data' = data /\ size' = size]_vars

\* a range in the middle of a free entry was marked, leaving the bytes on
\* both sides free
C16_Witness ==
    /\ op = "mark_allocated" /\ err = NoError
    /\ args = << <<1, 2>> >>
    /\ unallocated_ranges = << <<0, 0>>, <<3, 3>> >>

\* C19: failure atomicity of mark_allocated.  When mark_allocated raises,
\* the free list is exactly the one before the call.
C19_MarkFailureAtomic ==
    [][(op' = "mark_allocated" /\ err' # NoError)
        => unallocated_ranges' = unallocated_ranges]_vars

----------------------------------------------------------------------------
(* Termination of mark_allocated *)

\* C18: mark_allocated always terminates.  On every free list the model
\* reaches (unsorted, touching and overlapping ones included) and for every
\* range, each recursive call is on a range with a strictly larger begin
\* and the same end, so that a call is followed by fewer calls than the
\* buffer has bytes before it returns or raises.
C18_MarkTerminates ==
    \A r \in MarkRanges :
        LET calls == mark_allocated_calls(unallocated_ranges, size, r, size + 1)
        IN  /\ Len(calls) <= size
            /\ \A k \in 1..(Len(calls) - 1) :
                   calls[k + 1][1] > calls[k][1] /\ calls[k + 1][2] = calls[k][2]

\* a free list on which marking the range (0, 3) takes three calls: the
\* first deletes (0, 0), the second shrinks (0, 2) and the third works on
\* (3, 3)
C18_Witness ==
    /\ unallocated_ranges = << <<0, 0>>, <<0, 2>>, <<3, 3>> >>
    /\ mark_allocated_calls(unallocated_ranges, size, <<0, 3>>, size + 1)
          = << <<0, 3>>, <<1, 3>>, <<3, 3>> >>

----------------------------------------------------------------------------
(* allocate with data, on a buffer of DataLen bytes *)

DataLen == 3

\* the buffer starts with every byte 7
DataList == [i \in 1..DataLen |-> 7]

\* the ranges deallocate is given
DataFreed == {<<0, DataLen - 1>>, <<1, DataLen - 1>>, <<1, 1>>}

\* data: None, a byte, two bytes
DataArgs == {<<>>, << <<9>> >>, << <<9, 8>> >>}

\* size: None, 0, 2
DataSizes == {<<>>, <<0>>, <<2>>}

\* can_write_to: None, and true from offset 1 on
DataPlacements == {<<>>, <<1..DataLen>>}

InitData ==
    /\ data = ArrayFromList(DataList)
    /\ size = DataLen
    /\ unallocated_ranges = <<>>
    /\ type = ROM_TYPE_NAME_UNKNOWN
    /\ op = "from_list" /\ args = <<DataList>>
    /\ err = NoError /\ ret = None
    /\ handed_out = None /\ headers = 0

NextData ==
    \/ \E r \in DataFreed : Deallocate(r)
    \/ \E d \in DataArgs, n \in DataSizes, p \in DataPlacements : Allocate(d, n, p)

SpecData == InitData /\ [][NextData]_vars

\* C17: the effect and the frame of allocate.  When allocate returns the
\* offset o for a request of N bytes, one entry that began at o and held at
\* least N bytes is shrunk from the front to (o + N, end), or removed when
\* it held exactly N, and every other entry is as before; with data given
\* the bytes o .. o + N - 1 are the data and every other byte is as before,
\* with only a size given no byte changes.  When allocate raises
\* InvalidArgumentError (neither data nor size, a size that differs from
\* the length of the data, a size <= 0) or NotEnoughUnallocatedSpaceError,
\* the free list and the contents are as before.
C17_AllocateEffect ==
    [][op' = "allocate"
        => /\ (err' = InvalidArgumentError) <=> ~ValidAllocArgs(args')
           /\ size' = size
           /\ err' \in {InvalidArgumentError, NotEnoughUnallocatedSpaceError}
                => (unallocated_ranges' = unallocated_ranges /\ data' = data)
           /\ err' = NoError
                => LET o == ret'[1]
                       N == RequestedSize(args')
                   IN  /\ \E i \in 1..Len(unallocated_ranges) :
                              LET end == unallocated_ranges[i][2]
                              IN  /\ unallocated_ranges[i][1] = o
                                  /\ end - o + 1 >= N
                                  /\ unallocated_ranges' =
                                        IF end - o + 1 = N
                                        THEN list_del(unallocated_ranges, i)
                                        ELSE list_set(unallocated_ranges, i,
                                                      <<o + N, end>>)
                       /\ \A k \in 0..(size - 1) :
                              ByteAt(data', k) =
                                 IF args'[1] # None /\ k >= o /\ k < o + N
                                 THEN args'[1][1][k - o + 1]
                                 ELSE ByteAt(data, k)
                       /\ data'.len = data.len]_vars

\* two bytes of data were allocated at offset 1: they are in the buffer,
\* the byte before them is the one the buffer started with, and the entry
\* that began at 0 is still in the list
C17_Witness ==
    /\ op = "allocate" /\ err = NoError /\ ret = <<1>>
    /\ args[1] = << <<9, 8>> >>
    /\ ByteAt(data, 0) = 7 /\ ByteAt(data, 1) = 9 /\ ByteAt(data, 2) = 8
    /\ unallocated_ranges = << <<0, 2>> >>

----------------------------------------------------------------------------
(* Disciplined use of the allocator, on a buffer of HeldLen bytes: the       *)
(* regions handed out are followed, and deallocate is only given ranges     *)
(* that have no free byte                                                   *)

HeldLen == 3

HeldRanges ==
    {r \in (0..(HeldLen - 1)) \X (0..(HeldLen - 1)) : r[1] <= r[2]}
        \cup {<<1, 0>>, <<0, HeldLen>>}

\* size: None, and 0 to HeldLen
HeldSizes == {<<>>} \cup {<<n>> : n \in 0..HeldLen}

\* can_write_to: None, and true on the odd offsets
HeldPlacements == {<<>>, <<{o \in 0..HeldLen : o % 2 = 1}>>}

InitHeld ==
    /\ data = ArrayFromList([i \in 1..HeldLen |-> 0])
    /\ size = HeldLen
    /\ unallocated_ranges = <<>>
    /\ type = ROM_TYPE_NAME_UNKNOWN
    /\ op = "from_list" /\ args = <<[i \in 1..HeldLen |-> 0]>>
    /\ err = NoError /\ ret = None
    /\ handed_out = << <<>> >> /\ headers = 0

NextHeld ==
    \/ \E r \in HeldRanges :
          /\ RangeBytes(r) \cap FreeBytes(unallocated_ranges) = {}
          /\ Deallocate(r)
    \/ \E r \in HeldRanges : MarkAllocated(r)
    \/ \E n \in HeldSizes, p \in HeldPlacements : Allocate(<<>>, n, p)

SpecHeld == InitHeld /\ [][NextHeld]_vars

\* C20: no double allocation under disciplined use.  Starting from a free
\* list of pairwise disjoint entries, through any sequence of allocate,
\* mark_allocated and deallocate calls in which deallocate is only given a
\* range with no free byte, any two regions handed out by allocate or
\* mark_allocated and not deallocated since have no byte in common, and the
\* entries of the free list stay pairwise disjoint.
C20_NoDoubleAllocation ==
    /\ \A i, j \in 1..Len(handed_out[1]) :
           i # j => RangeBytes(handed_out[1][i]) \cap RangeBytes(handed_out[1][j]) = {}
    /\ NoOverlap(unallocated_ranges)

\* two regions are held, one returned by allocate and one by
\* mark_allocated, and a byte is still free
C20_Witness ==
    /\ op = "mark_allocated" /\ err = NoError
    /\ handed_out = << << <<0, 0>>, <<2, 2>> >> >>
    /\ unallocated_ranges = << <<1, 1>> >>

====
